---------------------------- MODULE Spec2Model ----------------------------
(***************************************************************************)
(* Killtone tooling: the method catalog generator                          *)
(* (generate_method_catalog.py) and the duplicate analyzer                 *)
(* (analyze_duplicates.py).                                                *)
(*                                                                         *)
(* Text is modelled character by character: a Python str is a sequence of  *)
(* one-character strings, a file is a sequence of lines.  Python indices   *)
(* are 0-based; index i of a Python list is element i + 1 here.            *)
(***************************************************************************)
EXTENDS Integers, Sequences, FiniteSets, TLC

VARIABLES
    lines,          \* content.split('\n') of the file handed to the extractor
    functions,      \* what extract_functions_from_file returned for it
    tree,           \* the source tree: which roots exist, each file's state
    catalog,        \* self.catalog of a MethodCatalogGenerator object
    document,       \* method_catalog.json, the persisted catalog document
    runs,           \* documents saved by generations since the tree last changed
    status,         \* analyze_duplicates.main: "ready", "returned" or "raised"
    out,            \* what analyze_duplicates.main has printed
    duplicates,     \* main's local: the result of analyze_duplicates
    similar_groups, \* main's local: the result of analyze_similar_functionality
    lastOp          \* the operation that produced the current state

vars == <<lines, functions, tree, catalog, document, runs, status, out,
          duplicates, similar_groups, lastOp>>

---------------------------------------------------------------------------
(* Python str and re primitives                                            *)

\* str.strip() and the regex class \s
Whitespace == {" ", "\t"}

\* [a-zA-Z_$]
IdStart ==
    {"a", "b", "c", "d", "e", "f", "g", "h", "i", "j", "k", "l", "m",
     "n", "o", "p", "q", "r", "s", "t", "u", "v", "w", "x", "y", "z",
     "A", "B", "C", "D", "E", "F", "G", "H", "I", "J", "K", "L", "M",
     "N", "O", "P", "Q", "R", "S", "T", "U", "V", "W", "X", "Y", "Z",
     "_", "$"}

\* [a-zA-Z0-9_$]
IdChar == IdStart \cup {"0", "1", "2", "3", "4", "5", "6", "7", "8", "9"}

RECURSIVE lstrip(_)
lstrip(s) ==
    IF s # <<>> /\ Head(s) \in Whitespace THEN lstrip(Tail(s)) ELSE s

RECURSIVE rstrip(_)
rstrip(s) ==
    IF s # <<>> /\ s[Len(s)] \in Whitespace
    THEN rstrip(SubSeq(s, 1, Len(s) - 1))
    ELSE s

strip(s) == rstrip(lstrip(s))

startswith(s, prefix) ==
    Len(s) >= Len(prefix) /\ SubSeq(s, 1, Len(prefix)) = prefix

endswith(s, suffix) ==
    Len(s) >= Len(suffix) /\ SubSeq(s, Len(s) - Len(suffix) + 1, Len(s)) = suffix

\* sep.join(parts)
RECURSIVE join(_, _)
join(sep, parts) ==
    IF parts = <<>> THEN <<>>
    ELSE IF Len(parts) = 1 THEN parts[1]
    ELSE parts[1] \o sep \o join(sep, Tail(parts))

\* Optional values: None is <<>>, a value v is <<v>>.
None == <<>>
Some(v) == <<v>>

\* The position after the longest run of characters of C that starts at p.
RECURSIVE SkipWhile(_, _, _)
SkipWhile(s, p, C) ==
    IF p <= Len(s) /\ s[p] \in C THEN SkipWhile(s, p + 1, C) ELSE p

\* The position of the first ch at or after p (Len(s) + 1 when there is none).
RECURSIVE SkipUntil(_, _, _)
SkipUntil(s, p, ch) ==
    IF p <= Len(s) /\ s[p] # ch THEN SkipUntil(s, p + 1, ch) ELSE p

\* Whether the literal lit stands at position p of s.
LiteralAt(s, p, lit) ==
    p + Len(lit) - 1 <= Len(s) /\ SubSeq(s, p, p + Len(lit) - 1) = lit

\* \s*\([^)]*\)  from p: the position after the ')' , or 0 when it fails.
ParensFrom(s, p) ==
    LET a == SkipWhile(s, p, Whitespace)
        b == SkipUntil(s, a + 1, ")")
    IN  IF a <= Len(s) /\ s[a] = "(" /\ b <= Len(s) THEN b + 1 ELSE 0

\* \s*\([^)]*\)\s*\{  from p
CallWithBraceFrom(s, p) ==
    LET q == ParensFrom(s, p)
        c == SkipWhile(s, q, Whitespace)
    IN  q # 0 /\ c <= Len(s) /\ s[c] = "{"

\* ([a-zA-Z_$][a-zA-Z0-9_$]*)\s*\([^)]*\)\s*\{  from p: the captured name
IdentCallFrom(s, p) ==
    LET e == SkipWhile(s, p + 1, IdChar)
    IN  IF p <= Len(s) /\ s[p] \in IdStart /\ CallWithBraceFrom(s, e)
        THEN Some(SubSeq(s, p, e - 1))
        ELSE None

kwFunction == <<"f", "u", "n", "c", "t", "i", "o", "n">>
kwAsync == <<"a", "s", "y", "n", "c">>
opArrow == <<"=", ">">>

\* r'^\s*([a-zA-Z_$][a-zA-Z0-9_$]*)\s*\([^)]*\)\s*\{'
MatchMethod(s) == IdentCallFrom(s, SkipWhile(s, 1, Whitespace))

\* r'^\s*function\s+([a-zA-Z_$][a-zA-Z0-9_$]*)\s*\([^)]*\)\s*\{'
MatchFunctionKeyword(s) ==
    LET a == SkipWhile(s, 1, Whitespace)
        b == SkipWhile(s, a + Len(kwFunction), Whitespace)
    IN  IF LiteralAt(s, a, kwFunction) /\ b > a + Len(kwFunction)
        THEN IdentCallFrom(s, b)
        ELSE None

\* r'^\s*([a-zA-Z_$][a-zA-Z0-9_$]*)\s*=\s*\([^)]*\)\s*=>\s*\{'
MatchArrow(s) ==
    LET a == SkipWhile(s, 1, Whitespace)
        e == SkipWhile(s, a + 1, IdChar)
        eq == SkipWhile(s, e, Whitespace)
        q == ParensFrom(s, eq + 1)
        ar == SkipWhile(s, q, Whitespace)
        br == SkipWhile(s, ar + Len(opArrow), Whitespace)
    IN  IF /\ a <= Len(s) /\ s[a] \in IdStart
           /\ eq <= Len(s) /\ s[eq] = "="
           /\ q # 0
           /\ LiteralAt(s, ar, opArrow)
           /\ br <= Len(s) /\ s[br] = "{"
        THEN Some(SubSeq(s, a, e - 1))
        ELSE None

\* r'^\s*(?:async\s+)?([a-zA-Z_$][a-zA-Z0-9_$]*)\s*\([^)]*\)\s*\{'
\* The optional group is tried first; when the rest then fails the regex
\* engine backtracks and matches without it.
MatchAsyncMethod(s) ==
    LET a == SkipWhile(s, 1, Whitespace)
        b == SkipWhile(s, a + Len(kwAsync), Whitespace)
        withAsync == IF LiteralAt(s, a, kwAsync) /\ b > a + Len(kwAsync)
                     THEN IdentCallFrom(s, b)
                     ELSE None
    IN  IF withAsync # None THEN withAsync ELSE IdentCallFrom(s, a)

\* patterns, in list order: re.search(patterns[i - 1], s), the captured
\* group(1) when it matches.
PatternCount == 4

ApplyPattern(i, s) ==
    CASE i = 1 -> MatchMethod(s)
      [] i = 2 -> MatchFunctionKeyword(s)
      [] i = 3 -> MatchArrow(s)
      [] i = 4 -> MatchAsyncMethod(s)

---------------------------------------------------------------------------
(* Source lines the files of the model are made of                         *)

MaxLines == 4

lnBlank == <<>>
lnOpen == <<"/", "*", "*">>
lnBody == <<" ", "*", " ", "P", "l", "a", "y", "s">>
lnClose == <<" ", "*", "/">>
lnMethod == <<"p", "l", "a", "y", "(", ")", " ", "{">>
lnIf == <<"i", "f", " ", "(", "x", ")", " ", "{">>
lnOneLine == <<"/", "*", "*", " ", "D", "o", "c", " ", "*", "/">>
lnLineComment == <<"/", "/", " ", "n", "o", "t", "e">>
lnNoteClose == <<"/", "/", " ", "o", "l", "d", " ", "*", "/">>
lnCode == <<"x", " ", "=", " ", "1", ";">>
lnFunction ==
    <<"f", "u", "n", "c", "t", "i", "o", "n", " ", "g", "o", "(", ")", " ", "{">>
lnArrow == <<"r", "u", "n", " ", "=", " ", "(", ")", " ", "=", ">", " ", "{">>
lnAsync ==
    <<"a", "s", "y", "n", "c", " ", "l", "o", "a", "d", "(", ")", " ", "{">>

LineSet ==
    {lnBlank, lnOpen, lnBody, lnClose, lnMethod, lnIf, lnOneLine,
     lnLineComment, lnNoteClose, lnCode, lnFunction, lnArrow, lnAsync}

FileSet == UNION {[1..n -> LineSet] : n \in 1..MaxLines}

ExtractPath == <<"src", <<"a", ".", "j", "s">>>>

\* re.search(pattern, line) in the loop of extract_functions_from_file.  The
\* result depends on the pattern and the line alone: it is computed once for
\* each line of LineSet and looked up afterwards.
MatchTable ==
    [s \in LineSet |-> [i \in 1..PatternCount |-> ApplyPattern(i, s)]]

PatternMatch(i, s) == MatchTable[s][i]

---------------------------------------------------------------------------
(* MethodCatalogGenerator.extract_jsdoc_comment                            *)

mkOpen == <<"/", "*", "*">>
mkClose == <<"*", "/">>
mkStar == <<"*">>
mkLineComment == <<"/", "/">>

\* A collection that is dropped when the file starts before an opener.
RECURSIVE CollectUpwardOrDiscard(_, _, _)
CollectUpwardOrDiscard(ls, i, comment_lines) ==
    IF i < 0 THEN <<>>
    ELSE LET line == strip(ls[i + 1])
             collected == <<line>> \o comment_lines
         IN  IF startswith(line, mkOpen)
             THEN collected
             ELSE CollectUpwardOrDiscard(ls, i - 1, collected)

\* The inner while loop: every line from index i upward is put in front of
\* the collection, until one starts with the opener or the file starts.
RECURSIVE CollectUpward(_, _, _)
CollectUpward(ls, i, comment_lines) ==
    IF i < 0 THEN comment_lines
    ELSE LET line == strip(ls[i + 1])
             collected == <<line>> \o comment_lines
         IN  IF startswith(line, mkOpen)
             THEN collected
             ELSE CollectUpward(ls, i - 1, collected)

\* The outer while loop, from index i upward: comment_lines at its exit.
RECURSIVE ScanUpward(_, _)
ScanUpward(ls, i) ==
    IF i < 0 THEN <<>>
    ELSE LET line == strip(ls[i + 1])
         IN  IF endswith(line, mkClose)
             THEN CollectUpward(ls, i - 1, <<line>>)
             ELSE IF line = <<>> \/ startswith(line, mkLineComment)
             THEN ScanUpward(ls, i - 1)
             ELSE <<>>

\* One pass of the clean-up loop: what the line appends to description.
CleanLine(raw) ==
    LET line == strip(raw)
        text == IF startswith(line, mkStar) THEN strip(Tail(line)) ELSE line
    IN  IF startswith(line, mkOpen) \/ startswith(line, mkClose) THEN <<>>
        ELSE IF text # <<>> THEN <<text>>
        ELSE <<>>

RECURSIVE CleanLines(_)
CleanLines(comment_lines) ==
    IF comment_lines = <<>> THEN <<>>
    ELSE CleanLine(Head(comment_lines)) \o CleanLines(Tail(comment_lines))

extract_jsdoc_comment(ls, function_line_index) ==
    LET comment_lines == ScanUpward(ls, function_line_index - 1)
    IN  IF comment_lines # <<>>
        THEN Some(join(<<" ">>, CleanLines(comment_lines)))
        ELSE None

---------------------------------------------------------------------------
(* MethodCatalogGenerator.extract_functions_from_file                      *)

NoDescription ==
    <<"N", "o", " ", "d", "e", "s", "c", "r", "i", "p", "t", "i", "o", "n",
      " ", "a", "v", "a", "i", "l", "a", "b", "l", "e">>

StoplistNoIf ==
    {<<"f", "o", "r">>, <<"w", "h", "i", "l", "e">>,
     <<"s", "w", "i", "t", "c", "h">>, <<"c", "a", "t", "c", "h">>,
     <<"e", "l", "s", "e">>}

\* ['if', 'for', 'while', 'switch', 'catch', 'else']
Stoplist ==
    {<<"i", "f">>, <<"f", "o", "r">>, <<"w", "h", "i", "l", "e">>,
     <<"s", "w", "i", "t", "c", "h">>, <<"c", "a", "t", "c", "h">>,
     <<"e", "l", "s", "e">>}

\* description or 'No description available'
DescriptionOrDefault(description) ==
    IF description = None \/ description[1] = <<>>
    THEN NoDescription
    ELSE description[1]

\* The dict appended for a match on line index i.
FunctionEntry(ls, i, function_name, file_path) ==
    [name |-> function_name,
     description |-> DescriptionOrDefault(extract_jsdoc_comment(ls, i)),
     file |-> file_path,
     line |-> i + 1]

\* A loop without the break: every pattern that matches appends.
RECURSIVE TryPatternsNoBreak(_, _, _, _)
TryPatternsNoBreak(ls, i, p, file_path) ==
    IF p > PatternCount THEN <<>>
    ELSE LET match == PatternMatch(p, ls[i + 1])
         IN  IF match # None /\ match[1] \notin Stoplist
             THEN <<FunctionEntry(ls, i, match[1], file_path)>>
                    \o TryPatternsNoBreak(ls, i, p + 1, file_path)
             ELSE TryPatternsNoBreak(ls, i, p + 1, file_path)

\* The inner loop over patterns p.. for line index i: a stoplisted match
\* continues with the next pattern, an accepted match appends and breaks.
RECURSIVE TryPatterns(_, _, _, _)
TryPatterns(ls, i, p, file_path) ==
    IF p > PatternCount THEN <<>>
    ELSE LET match == PatternMatch(p, ls[i + 1])
         IN  IF match = None THEN TryPatterns(ls, i, p + 1, file_path)
             ELSE IF match[1] \in Stoplist
             THEN TryPatterns(ls, i, p + 1, file_path)
             ELSE <<FunctionEntry(ls, i, match[1], file_path)>>

\* The outer loop over the lines from index i on.
RECURSIVE ExtractFrom(_, _, _)
ExtractFrom(ls, i, file_path) ==
    IF i >= Len(ls) THEN <<>>
    ELSE TryPatterns(ls, i, 1, file_path) \o ExtractFrom(ls, i + 1, file_path)

\* extract_functions_from_file for a file that was read into ls.
ExtractFunctions(ls, file_path) == ExtractFrom(ls, 0, file_path)


---------------------------------------------------------------------------
(* The source tree                                                         *)

\* self.source_dirs, the default of __init__
SourceDirs == <<"src", "assets">>

fnA == <<"a", ".", "j", "s">>
fnB == <<"b", ".", "j", "s">>
fnC == <<"c", ".", "j", "s">>
fnNotes == <<"n", ".", "m", "d">>
extJs == <<".", "j", "s">>

\* The order in which os.walk lists the files of a directory: fixed for a
\* given file system.
ListingOrder == <<fnA, fnB, fnC, fnNotes>>

\* os.path.join(root, file): the files the tree may hold
PathSet ==
    {<<"src", fnA>>, <<"src", fnB>>, <<"assets", fnC>>, <<"assets", fnNotes>>}

cNoFunctions == <<lnCode>>
cDocumented == <<lnOpen, lnBody, lnClose, lnMethod>>

Absent == [state |-> "absent", content |-> <<>>]
Unreadable == [state |-> "unreadable", content |-> <<>>]
Readable(c) == [state |-> "readable", content |-> c]

\* What each file may be: absent, unreadable, or readable with a content.
FileStates(path) ==
    CASE path = <<"src", fnA>> ->
            {Absent, Unreadable, Readable(cNoFunctions), Readable(cDocumented)}
      [] path = <<"src", fnB>> -> {Absent, Unreadable, Readable(cDocumented)}
      [] OTHER -> {Absent, Readable(cDocumented)}

\* The trees: a root that does not exist holds no file.
TreeSet ==
    {t \in [roots : [{"src", "assets"} -> BOOLEAN],
            files : [PathSet -> UNION {FileStates(path) : path \in PathSet}]] :
        \A path \in PathSet :
            /\ t.files[path] \in FileStates(path)
            /\ ~t.roots[path[1]] => t.files[path] = Absent}

---------------------------------------------------------------------------
(* MethodCatalogGenerator: scan_directory, generate_catalog, save_catalog  *)

\* extract_functions_from_file: a file that cannot be read gives [].
ExtractFunctionsFromPath(t, file_path) ==
    IF t.files[file_path].state = "readable"
    THEN ExtractFunctions(t.files[file_path].content, file_path)
    ELSE <<>>

\* scan_directory: the files of the directory that end in .js, in listing
\* order, from position n of the listing on.
RECURSIVE ScanFrom(_, _, _)
ScanFrom(t, directory, n) ==
    IF n > Len(ListingOrder) THEN <<>>
    ELSE LET file == ListingOrder[n]
             path == <<directory, file>>
         IN  (IF /\ path \in PathSet
                 /\ t.files[path].state # "absent"
                 /\ endswith(file, extJs)
              THEN <<path>>
              ELSE <<>>) \o ScanFrom(t, directory, n + 1)

scan_directory(t, directory) == ScanFrom(t, directory, 1)

\* A scan that gives up at the first root that does not exist.
RECURSIVE AllFilesUntilMissingFrom(_, _)
AllFilesUntilMissingFrom(t, d) ==
    IF d > Len(SourceDirs) THEN <<>>
    ELSE IF t.roots[SourceDirs[d]]
    THEN scan_directory(t, SourceDirs[d]) \o AllFilesUntilMissingFrom(t, d + 1)
    ELSE <<>>

\* The first loop of generate_catalog: all_files, a missing root skipped.
RECURSIVE AllFilesFrom(_, _)
AllFilesFrom(t, d) ==
    IF d > Len(SourceDirs) THEN <<>>
    ELSE (IF t.roots[SourceDirs[d]]
          THEN scan_directory(t, SourceDirs[d])
          ELSE <<>>) \o AllFilesFrom(t, d + 1)

\* os.path.relpath of a path joined from a relative root: the path itself.
RelPath(file_path) == file_path

\* A Python dict keeps insertion order: a sequence of key/value items.
DictKeys(d) == {d[n].key : n \in DOMAIN d}

DictGet(d, k) ==
    IF k \in DictKeys(d)
    THEN Some((d[CHOOSE n \in DOMAIN d : d[n].key = k]).value)
    ELSE None

\* An assignment that extends the list already stored under the key.
DictSetExtending(d, k, v) ==
    IF k \in DictKeys(d)
    THEN [n \in DOMAIN d |->
            IF d[n].key = k THEN [key |-> k, value |-> d[n].value \o v] ELSE d[n]]
    ELSE Append(d, [key |-> k, value |-> v])

\* d[k] = v: an existing key keeps its place, a new key goes last.
DictSet(d, k, v) ==
    IF k \in DictKeys(d)
    THEN [n \in DOMAIN d |-> IF d[n].key = k THEN [key |-> k, value |-> v] ELSE d[n]]
    ELSE Append(d, [key |-> k, value |-> v])

\* The second loop of generate_catalog over all_files from position n on.
RECURSIVE ProcessFiles(_, _, _, _)
ProcessFiles(cat, t, all_files, n) ==
    IF n > Len(all_files) THEN cat
    ELSE LET file_path == all_files[n]
             fns == ExtractFunctionsFromPath(t, file_path)
         IN  ProcessFiles(IF fns # <<>> THEN DictSet(cat, RelPath(file_path), fns)
                          ELSE cat,
                          t, all_files, n + 1)

AllFilesUntilMissing(t) == AllFilesUntilMissingFrom(t, 1)

AllFiles(t) == AllFilesFrom(t, 1)

\* generate_catalog on a generator whose self.catalog is cat.
generate_catalog(cat, t) == ProcessFiles(cat, t, AllFiles(t), 1)

\* json.dump(self.catalog, f, indent=2): the document as its tokens, the
\* keys in dict order, each followed by its list of entry objects.
Token(kind, v) == [t |-> kind, v |-> v]

RECURSIVE DumpEntries(_)
DumpEntries(entries) ==
    IF entries = <<>> THEN <<>>
    ELSE <<Token("object", <<Head(entries)>>)>> \o DumpEntries(Tail(entries))

RECURSIVE DumpItems(_)
DumpItems(d) ==
    IF d = <<>> THEN <<>>
    ELSE <<Token("key", <<Head(d).key>>), Token("[", <<>>)>>
            \o DumpEntries(Head(d).value)
            \o <<Token("]", <<>>)>>
            \o DumpItems(Tail(d))

Dump(d) == <<Token("{", <<>>)>> \o DumpItems(d) \o <<Token("}", <<>>)>>

\* method_catalog.json: absent, or a file holding tokens.
NoDocument == [exists |-> FALSE, tokens |-> <<>>]
DocumentOf(tokens) == [exists |-> TRUE, tokens |-> tokens]

---------------------------------------------------------------------------
(* analyze_duplicates.py: load_catalog                                     *)

LoadFailed == [ok |-> FALSE, catalog |-> <<>>]
Loaded(d) == [ok |-> TRUE, catalog |-> d]

\* The entry objects of one list, from token p to the closing bracket.
RECURSIVE ParseEntries(_, _, _)
ParseEntries(tk, p, acc) ==
    IF p > Len(tk) THEN [ok |-> FALSE, pos |-> p, entries |-> acc]
    ELSE IF tk[p].t = "object" THEN ParseEntries(tk, p + 1, Append(acc, tk[p].v[1]))
    ELSE IF tk[p].t = "]" THEN [ok |-> TRUE, pos |-> p + 1, entries |-> acc]
    ELSE [ok |-> FALSE, pos |-> p, entries |-> acc]

\* The items of the top-level object, from token p to the closing brace,
\* which must be the last token.
RECURSIVE ParseItems(_, _, _)
ParseItems(tk, p, d) ==
    IF p > Len(tk) THEN LoadFailed
    ELSE IF tk[p].t = "}" THEN (IF p = Len(tk) THEN Loaded(d) ELSE LoadFailed)
    ELSE IF tk[p].t = "key" /\ p + 1 <= Len(tk) /\ tk[p + 1].t = "["
    THEN LET r == ParseEntries(tk, p + 2, <<>>)
         IN  IF r.ok THEN ParseItems(tk, r.pos, DictSet(d, tk[p].v[1], r.entries))
             ELSE LoadFailed
    ELSE LoadFailed

\* json.load: the mapping, or a JSONDecodeError.
json_load(tk) ==
    IF tk = <<>> \/ tk[1].t # "{" THEN LoadFailed ELSE ParseItems(tk, 2, <<>>)

\* A loader that answers a failure with an empty catalog.
load_catalog_or_empty(doc) ==
    IF doc.exists /\ json_load(doc.tokens).ok
    THEN json_load(doc.tokens)
    ELSE Loaded(<<>>)

\* load_catalog: open() raises when the file is missing, json.load when it
\* cannot be parsed; nothing is caught.
load_catalog(doc) ==
    IF doc.exists THEN json_load(doc.tokens) ELSE LoadFailed

---------------------------------------------------------------------------
(* analyze_duplicates.py: analyze_duplicates                               *)

\* defaultdict(list): d[k].append(v)
DictAppend(d, k, v) ==
    IF k \in DictKeys(d)
    THEN [n \in DOMAIN d |->
            IF d[n].key = k THEN [key |-> k, value |-> Append(d[n].value, v)]
            ELSE d[n]]
    ELSE Append(d, [key |-> k, value |-> <<v>>])

Occurrence(file_path, method) ==
    [file |-> file_path, description |-> method.description, line |-> method.line]

\* The inner loop of the grouping: the methods of one file from position m.
RECURSIVE GroupMethods(_, _, _, _)
GroupMethods(by_name, file_path, methods, m) ==
    IF m > Len(methods) THEN by_name
    ELSE GroupMethods(DictAppend(by_name, methods[m].name,
                                 Occurrence(file_path, methods[m])),
                      file_path, methods, m + 1)

\* The outer loop: the items of the catalog from position n.
RECURSIVE GroupCatalog(_, _, _)
GroupCatalog(by_name, cat, n) ==
    IF n > Len(cat) THEN by_name
    ELSE GroupCatalog(GroupMethods(by_name, cat[n].key, cat[n].value, 1), cat, n + 1)

IsDuplicatedFromOne(occurrences) == Len(occurrences) >= 1

\* len(occurrences) > 1
IsDuplicated(occurrences) == Len(occurrences) > 1

\* The second loop: the items of methods_by_name that are duplicated.
RECURSIVE FilterDuplicates(_)
FilterDuplicates(by_name) ==
    IF by_name = <<>> THEN <<>>
    ELSE (IF IsDuplicated(Head(by_name).value) THEN <<Head(by_name)>> ELSE <<>>)
            \o FilterDuplicates(Tail(by_name))

analyze_duplicates(cat) == FilterDuplicates(GroupCatalog(<<>>, cat, 1))

---------------------------------------------------------------------------
(* analyze_duplicates.py: analyze_similar_functionality                    *)

\* patterns, in dict order
Patterns ==
    <<
      [key |-> "initialization",
       value |-> <<<<"i", "n", "i", "t", "i", "a", "l", "i", "z", "e">>,
                   <<"i", "n", "i", "t">>,
                   <<"s", "e", "t", "u", "p">>,
                   <<"c", "r", "e", "a", "t", "e">>>>],
      [key |-> "disposal",
       value |-> <<<<"d", "i", "s", "p", "o", "s", "e">>,
                   <<"c", "l", "e", "a", "n", "u", "p">>,
                   <<"d", "e", "s", "t", "r", "o", "y">>,
                   <<"r", "e", "m", "o", "v", "e">>>>],
      [key |-> "update",
       value |-> <<<<"u", "p", "d", "a", "t", "e">>,
                   <<"t", "i", "c", "k">>,
                   <<"r", "e", "f", "r", "e", "s", "h">>>>],
      [key |-> "audio",
       value |-> <<<<"p", "l", "a", "y">>,
                   <<"s", "o", "u", "n", "d">>,
                   <<"a", "u", "d", "i", "o">>,
                   <<"m", "u", "s", "i", "c">>>>],
      [key |-> "player",
       value |-> <<<<"p", "l", "a", "y", "e", "r">>,
                   <<"s", "p", "a", "w", "n">>,
                   <<"d", "e", "a", "t", "h">>,
                   <<"k", "i", "l", "l">>>>],
      [key |-> "weapon",
       value |-> <<<<"w", "e", "a", "p", "o", "n">>,
                   <<"f", "i", "r", "e">>,
                   <<"s", "h", "o", "o", "t">>,
                   <<"r", "e", "l", "o", "a", "d">>>>],
      [key |-> "effects",
       value |-> <<<<"e", "f", "f", "e", "c", "t">>,
                   <<"p", "a", "r", "t", "i", "c", "l", "e">>,
                   <<"v", "i", "s", "u", "a", "l">>,
                   <<"a", "n", "i", "m", "a", "t", "i", "o", "n">>>>],
      [key |-> "manager",
       value |-> <<<<"m", "a", "n", "a", "g", "e", "r">>,
                   <<"h", "a", "n", "d", "l", "e">>,
                   <<"p", "r", "o", "c", "e", "s", "s">>>>]
    >>

UpperCase == <<"A", "B", "C", "D", "E", "F", "G", "H", "I", "J", "K", "L", "M", "N", "O", "P", "Q", "R", "S", "T", "U", "V", "W", "X", "Y", "Z">>
LowerCase == <<"a", "b", "c", "d", "e", "f", "g", "h", "i", "j", "k", "l", "m", "n", "o", "p", "q", "r", "s", "t", "u", "v", "w", "x", "y", "z">>

\* str.lower()
LowerChar(c) ==
    IF \E n \in DOMAIN UpperCase : UpperCase[n] = c
    THEN LowerCase[CHOOSE n \in DOMAIN UpperCase : UpperCase[n] = c]
    ELSE c

lower(s) == [n \in DOMAIN s |-> LowerChar(s[n])]

\* needle in haystack
Contains(haystack, needle) ==
    \E p \in 1..(Len(haystack) - Len(needle) + 1) :
        SubSeq(haystack, p, p + Len(needle) - 1) = needle

\* A test that looks at the name only.
KeywordHitsNameOnly(keyword, method) ==
    Contains(lower(method.name), lower(keyword))

\* keyword.lower() in method['name'].lower() or
\* keyword.lower() in method['description'].lower()
KeywordHits(keyword, method) ==
    \/ Contains(lower(method.name), lower(keyword))
    \/ Contains(lower(method.description), lower(keyword))

\* any(... for keyword in keywords)
AnyKeywordHits(keywords, method) ==
    \E n \in DOMAIN keywords : KeywordHits(keywords[n], method)

\* The names and descriptions of the methods the catalogs of the model are
\* made of.
nmInitAudioEffect == <<"i", "n", "i", "t", "A", "u", "d", "i", "o", "E", "f", "f", "e", "c", "t">>
nmRender == <<"r", "e", "n", "d", "e", "r">>
nmGo == <<"g", "o">>
dsParticle == <<"a", " ", "p", "a", "r", "t", "i", "c", "l", "e">>
dsDeathSound == <<"P", "l", "a", "y", "s", " ", "t", "h", "e", " ", "d", "e", "a", "t", "h", " ", "s", "o", "u", "n", "d">>
dsHandleDraw == <<"H", "a", "n", "d", "l", "e", " ", "d", "r", "a", "w">>

MethodKinds ==
    {[name |-> nmInitAudioEffect, description |-> dsParticle],
     [name |-> nmRender, description |-> NoDescription],
     [name |-> nmGo, description |-> dsDeathSound],
     [name |-> nmRender, description |-> dsHandleDraw]}

\* The any(...) test of the classification loop.  It depends on the
\* category, the name and the description alone: it is computed once for
\* each kind of method and looked up afterwards.
HitTable ==
    [kind \in MethodKinds |->
        [c \in DOMAIN Patterns |-> AnyKeywordHits(Patterns[c].value, kind)]]

CategoryHits(c, method) ==
    HitTable[[name |-> method.name, description |-> method.description]][c]

MethodInfo(file_path, method) ==
    [name |-> method.name, file |-> file_path,
     description |-> method.description, line |-> method.line]

\* The loop over patterns.items() for one method, from category c.
RECURSIVE ClassifyMethod(_, _, _, _)
ClassifyMethod(groups, file_path, method, c) ==
    IF c > Len(Patterns) THEN groups
    ELSE ClassifyMethod(
            IF CategoryHits(c, method)
            THEN DictAppend(groups, Patterns[c].key, MethodInfo(file_path, method))
            ELSE groups,
            file_path, method, c + 1)

RECURSIVE ClassifyMethods(_, _, _, _)
ClassifyMethods(groups, file_path, methods, m) ==
    IF m > Len(methods) THEN groups
    ELSE ClassifyMethods(ClassifyMethod(groups, file_path, methods[m], 1),
                         file_path, methods, m + 1)

RECURSIVE ClassifyCatalog(_, _, _)
ClassifyCatalog(groups, cat, n) ==
    IF n > Len(cat) THEN groups
    ELSE ClassifyCatalog(ClassifyMethods(groups, cat[n].key, cat[n].value, 1),
                         cat, n + 1)

analyze_similar_functionality(cat) == ClassifyCatalog(<<>>, cat, 1)

---------------------------------------------------------------------------
(* Variables a specification leaves alone                                  *)

IdleExtractVars ==
    /\ lines = <<>>
    /\ functions = <<>>

---------------------------------------------------------------------------
(* analyze_duplicates.py: the reports and main                             *)

DescriptionShown == 80
SimilarMinimum == 3
SimilarShown == 10
LargeFileMinimum == 15

Min(a, b) == IF a < b THEN a ELSE b

\* print_duplicates: a row for each duplicated name, a line for each
\* occurrence with the first 80 characters of its description.
print_duplicates(dups) ==
    [report |-> "duplicates",
     rows |-> [n \in DOMAIN dups |->
                 [method |-> dups[n].key,
                  count |-> Len(dups[n].value),
                  occurrences |->
                     [m \in DOMAIN dups[n].value |->
                        LET occ == dups[n].value[m]
                        IN  [file |-> occ.file, line |-> occ.line,
                             description |->
                                SubSeq(occ.description, 1,
                                       Min(DescriptionShown, Len(occ.description)))]]]]]

RECURSIVE SimilarRows(_)
SimilarRows(groups) ==
    IF groups = <<>> THEN <<>>
    ELSE LET methods == Head(groups).value
         IN  (IF Len(methods) > SimilarMinimum
              THEN <<[category |-> Head(groups).key,
                      count |-> Len(methods),
                      shown |-> [m \in 1..Min(SimilarShown, Len(methods)) |->
                                   [name |-> methods[m].name, file |-> methods[m].file]],
                      more |-> IF Len(methods) > SimilarShown
                               THEN Len(methods) - SimilarShown ELSE 0]>>
              ELSE <<>>) \o SimilarRows(Tail(groups))

\* print_similar_functionality: the categories with more than 3 methods.
print_similar_functionality(groups) ==
    [report |-> "similar", rows |-> SimilarRows(groups)]

RECURSIVE LargeFiles(_)
LargeFiles(cat) ==
    IF cat = <<>> THEN <<>>
    ELSE (IF Len(Head(cat).value) > LargeFileMinimum
          THEN <<[file |-> Head(cat).key, method_count |-> Len(Head(cat).value)]>>
          ELSE <<>>) \o LargeFiles(Tail(cat))

\* sorted(..., key=method_count, reverse=True): stable, largest first.
RECURSIVE SortedDescending(_)
SortedDescending(rows) ==
    IF rows = <<>> THEN <<>>
    ELSE LET top == CHOOSE n \in DOMAIN rows :
                       /\ \A m \in DOMAIN rows : rows[m].method_count <= rows[n].method_count
                       /\ \A m \in 1..(n - 1) : rows[m].method_count < rows[n].method_count
         IN  <<rows[top]>> \o
             SortedDescending(SubSeq(rows, 1, top - 1) \o SubSeq(rows, top + 1, Len(rows)))

\* analyze_file_structure: the files with more than 15 methods.
analyze_file_structure(cat) ==
    [report |-> "file structure", rows |-> SortedDescending(LargeFiles(cat))]

RECURSIVE TotalMethods(_)
TotalMethods(cat) ==
    IF cat = <<>> THEN 0 ELSE Len(Head(cat).value) + TotalMethods(Tail(cat))

\* f"{duplicate_methods/total_methods*100:.1f}" in tenths of a percent,
\* rounded half to even.  The float computation gives the same digits for
\* every total below 80.
RateTenths(duplicate_methods, total_methods) ==
    LET q == (1000 * duplicate_methods) \div total_methods
        r == (1000 * duplicate_methods) % total_methods
    IN  IF 2 * r > total_methods \/ (2 * r = total_methods /\ q % 2 = 1)
        THEN q + 1
        ELSE q

\* The prints of the summary: the division raises ZeroDivisionError when
\* the catalog has no method, after the three lines before it were printed.
Summary(cat, dups) ==
    <<[report |-> "summary"],
      [report |-> "Total files", value |-> Len(cat)],
      [report |-> "Total methods", value |-> TotalMethods(cat)],
      [report |-> "Duplicate method names", value |-> Len(dups)]>>
    \o (IF TotalMethods(cat) = 0 THEN <<>>
        ELSE <<[report |-> "Duplication rate",
                value |-> RateTenths(Len(dups), TotalMethods(cat))]>>)

---------------------------------------------------------------------------
(* Persisted documents handed to the analysis                              *)

MaxEntries == 2

MethodsOf(file_path, kinds) ==
    [n \in DOMAIN kinds |->
        [name |-> kinds[n].name, description |-> kinds[n].description,
         file |-> file_path, line |-> n]]

\* The entry lists a file may have in a catalog, <<>> included.
MethodLists(file_path) ==
    {MethodsOf(file_path, kinds) :
        kinds \in UNION {[1..n -> MethodKinds] : n \in 0..MaxEntries}}

ItemChoices(file_path) ==
    {<<>>} \cup {<<[key |-> file_path, value |-> ms]>> : ms \in MethodLists(file_path)}

CatalogSet ==
    {a \o b : a \in ItemChoices(<<"src", fnA>>), b \in ItemChoices(<<"src", fnB>>)}

\* The document save_catalog writes for catalog c, cut after k tokens: whole
\* when k is its length.
CutDocument(c, k) == DocumentOf(SubSeq(Dump(c), 1, k))

---------------------------------------------------------------------------
(* The analysis entry point                                                *)

\* The document is absent, a saved catalog, or a saved catalog cut short.
InitAnalysis ==
    /\ \/ document = NoDocument
       \/ \E c \in CatalogSet : \E k \in 0..Len(Dump(c)) :
             document = CutDocument(c, k)
    /\ status = "ready"
    /\ out = <<>>
    /\ duplicates = <<>>
    /\ similar_groups = <<>>
    /\ lastOp = "init"
    /\ tree = <<>>
    /\ catalog = <<>>
    /\ runs = <<>>
    /\ IdleExtractVars

\* analyze_duplicates.main()
AnalysisMain ==
    /\ status = "ready"
    /\ LET loaded == load_catalog(document)
           cat == loaded.catalog
           dups == analyze_duplicates(cat)
           groups == analyze_similar_functionality(cat)
       IN  IF ~loaded.ok
           THEN /\ status' = "raised"
                /\ UNCHANGED <<out, duplicates, similar_groups>>
           ELSE /\ duplicates' = dups
                /\ similar_groups' = groups
                /\ out' = <<print_duplicates(dups),
                            print_similar_functionality(groups),
                            analyze_file_structure(cat)>> \o Summary(cat, dups)
                /\ status' = IF TotalMethods(cat) = 0 THEN "raised" ELSE "returned"
    /\ lastOp' = "analysis"
    /\ UNCHANGED <<document, tree, catalog, runs, lines, functions>>

NextAnalysis == AnalysisMain

SpecAnalysis == InitAnalysis /\ [][NextAnalysis]_vars

---------------------------------------------------------------------------
(* The extractor applied to one file                                       *)

IdleCatalogVars ==
    /\ tree = <<>>
    /\ catalog = <<>>
    /\ document = NoDocument
    /\ runs = <<>>

IdleAnalysisVars ==
    /\ status = "ready"
    /\ out = <<>>
    /\ duplicates = <<>>
    /\ similar_groups = <<>>

InitExtract ==
    /\ lines \in FileSet
    /\ functions = <<>>
    /\ lastOp = "init"
    /\ IdleCatalogVars
    /\ IdleAnalysisVars

ExtractFunctionsFromFile ==
    /\ lastOp = "init"
    /\ functions' = ExtractFunctions(lines, ExtractPath)
    /\ lastOp' = "extract"
    /\ UNCHANGED <<lines, tree, catalog, document, runs, status, out,
                   duplicates, similar_groups>>

NextExtract == ExtractFunctionsFromFile

SpecExtract == InitExtract /\ [][NextExtract]_vars

---------------------------------------------------------------------------
(* The generator over a changing source tree                               *)

MaxRuns == 2

\* The last MaxRuns documents the generator object saved right after a
\* generate_catalog, since the tree last changed.
Record(history, doc) ==
    LET all == Append(history, doc)
    IN  IF Len(all) > MaxRuns THEN Tail(all) ELSE all

InitCatalog ==
    /\ tree \in TreeSet
    /\ catalog = <<>>
    /\ document = NoDocument
    /\ runs = <<>>
    /\ lastOp = "init"
    /\ IdleExtractVars
    /\ IdleAnalysisVars

\* generator.generate_catalog() on the generator object
GenerateCatalog ==
    /\ catalog' = generate_catalog(catalog, tree)
    /\ lastOp' = "generate"
    /\ UNCHANGED <<tree, document, runs, lines, functions, status, out,
                   duplicates, similar_groups>>

\* generator.save_catalog() on the generator object
SaveCatalog ==
    /\ document' = DocumentOf(Dump(catalog))
    /\ runs' = IF lastOp = "generate"
               THEN Record(runs, document')
               ELSE runs
    /\ lastOp' = "save"
    /\ UNCHANGED <<tree, catalog, lines, functions, status, out,
                   duplicates, similar_groups>>

\* generate_method_catalog.main(): a new generator, generate_catalog,
\* save_catalog; print_summary only prints.
GeneratorMain ==
    /\ document' = DocumentOf(Dump(generate_catalog(<<>>, tree)))
    /\ lastOp' = "main"
    /\ UNCHANGED <<tree, catalog, runs, lines, functions, status, out,
                   duplicates, similar_groups>>

TreeChanges(t) ==
    /\ t \in TreeSet
    /\ t # tree
    /\ tree' = t
    /\ runs' = <<>>
    /\ lastOp' = "edit"
    /\ UNCHANGED <<catalog, document, lines, functions, status, out,
                   duplicates, similar_groups>>

\* A file is written (created or replaced) in an existing root.
WriteFile ==
    \E path \in PathSet : \E c \in {cNoFunctions, cDocumented} :
        /\ tree.roots[path[1]]
        /\ TreeChanges([tree EXCEPT !.files[path] = Readable(c)])

\* A file is removed.
RemoveFile ==
    \E path \in PathSet :
        /\ tree.files[path] # Absent
        /\ TreeChanges([tree EXCEPT !.files[path] = Absent])

\* A file becomes unreadable (its permissions, or bytes that are not UTF-8).
SpoilFile ==
    \E path \in PathSet :
        /\ tree.files[path] # Absent
        /\ TreeChanges([tree EXCEPT !.files[path] = Unreadable])

\* A root directory is removed with everything in it.
RemoveRoot ==
    \E r \in {"src", "assets"} :
        /\ tree.roots[r]
        /\ TreeChanges([roots |-> [tree.roots EXCEPT ![r] = FALSE],
                        files |-> [path \in PathSet |->
                                      IF path[1] = r THEN Absent
                                      ELSE tree.files[path]]])

\* A root directory is created, empty.
CreateRoot ==
    \E r \in {"src", "assets"} :
        /\ ~tree.roots[r]
        /\ TreeChanges([tree EXCEPT !.roots[r] = TRUE])

NextCatalog ==
    \/ GenerateCatalog
    \/ SaveCatalog
    \/ GeneratorMain
    \/ WriteFile
    \/ RemoveFile
    \/ SpoilFile
    \/ RemoveRoot
    \/ CreateRoot

SpecCatalog == InitCatalog /\ [][NextCatalog]_vars

---------------------------------------------------------------------------
(* Claims about the extractor (SpecExtract)                                *)

\* The lowest-numbered pattern that matches line s (0 when none does).
FirstMatching(s) ==
    IF \E p \in 1..PatternCount : PatternMatch(p, s) # None
    THEN CHOOSE p \in 1..PatternCount :
            /\ PatternMatch(p, s) # None
            /\ \A q \in 1..(p - 1) : PatternMatch(q, s) = None
    ELSE 0

\* The text of one comment line as the claim reads it: markers and the
\* leading star removed.
CommentLineText(raw) ==
    LET s0 == strip(raw)
        s1 == IF startswith(s0, mkOpen) THEN SubSeq(s0, 4, Len(s0)) ELSE s0
        s2 == IF endswith(s1, mkClose) THEN SubSeq(s1, 1, Len(s1) - 2) ELSE s1
        s3 == strip(s2)
    IN  IF startswith(s3, mkStar) THEN strip(Tail(s3)) ELSE s3

RECURSIVE CommentText(_)
CommentText(block) ==
    IF block = <<>> THEN <<>>
    ELSE LET t == CommentLineText(Head(block))
         IN  (IF t = <<>> THEN <<>> ELSE <<t>>) \o CommentText(Tail(block))

\* Lines o..t are a block comment (o the opener line, t the terminator line),
\* only blank or // lines lie between t and k, and line k has an entry.
WellFormedComment(o, t, k) ==
    /\ o <= t /\ t < k
    /\ startswith(strip(lines[o]), mkOpen)
    /\ endswith(strip(lines[t]), mkClose)
    /\ \A j \in o..(t - 1) : ~endswith(strip(lines[j]), mkClose)
    /\ \A j \in (o + 1)..t : ~startswith(strip(lines[j]), mkOpen)
    /\ \A j \in (t + 1)..(k - 1) :
          strip(lines[j]) = <<>> \/ startswith(strip(lines[j]), mkLineComment)
    /\ \E e \in DOMAIN functions : functions[e].line = k

\* C1: for every function line preceded by a well-formed block comment, the
\* entry's description is the comment's text with the markers and each
\* line's leading star removed, empty lines dropped, joined by single
\* spaces, wherever the text stands in the comment.
C1_DescriptionIsCommentText ==
    lastOp = "extract" =>
        \A o, t, k \in 1..Len(lines) :
            WellFormedComment(o, t, k) =>
                LET text == join(<<" ">>, CommentText(SubSeq(lines, o, t)))
                IN  \A e \in DOMAIN functions :
                        functions[e].line = k /\ text # <<>> =>
                            functions[e].description = text

ControlFlowKeywords ==
    {<<"i", "f">>, <<"f", "o", "r">>, <<"w", "h", "i", "l", "e">>,
     <<"s", "w", "i", "t", "c", "h">>, <<"c", "a", "t", "c", "h">>,
     <<"e", "l", "s", "e">>}

\* C2: no entry carries a control-flow keyword as its name, and a line on
\* which some matcher captures such a keyword yields no entry under it.
C2_NoStoplistEntry ==
    lastOp = "extract" =>
        /\ \A e \in DOMAIN functions : functions[e].name \notin ControlFlowKeywords
        /\ \A i \in 1..Len(lines) : \A p \in 1..PatternCount :
              LET m == PatternMatch(p, lines[i])
              IN  m # None /\ m[1] \in ControlFlowKeywords =>
                     ~\E e \in DOMAIN functions :
                          functions[e].line = i /\ functions[e].name = m[1]

\* A file with a line on which a matcher captures a keyword was extracted,
\* and another line of it gave an entry.
C2_Witness ==
    /\ lastOp = "extract"
    /\ functions # <<>>
    /\ \E i \in 1..Len(lines) : \E p \in 1..PatternCount :
          LET m == PatternMatch(p, lines[i])
          IN  m # None /\ m[1] \in ControlFlowKeywords

\* C10: line numbers are strictly increasing and within the file; the
\* first matcher that matches a line decides its entry, a line gives at most
\* one entry, and every line whose first match is accepted has its entry, so
\* equal names on different lines are both kept.
C10_OneEntryPerLineInOrder ==
    lastOp = "extract" =>
        /\ \A e \in DOMAIN functions : functions[e].line \in 1..Len(lines)
        /\ \A e \in 1..(Len(functions) - 1) :
              functions[e].line < functions[e + 1].line
        /\ \A e \in DOMAIN functions :
              LET s == lines[functions[e].line]
              IN  /\ FirstMatching(s) # 0
                  /\ functions[e].name = PatternMatch(FirstMatching(s), s)[1]
        /\ \A i \in 1..Len(lines) :
              LET p == FirstMatching(lines[i])
              IN  p # 0 /\ PatternMatch(p, lines[i])[1] \notin ControlFlowKeywords =>
                     \E e \in DOMAIN functions : functions[e].line = i

\* Two entries with the same name on different lines were returned.
C10_Witness ==
    /\ lastOp = "extract"
    /\ \E e, f \in DOMAIN functions :
          /\ e # f
          /\ functions[e].name = functions[f].name
          /\ functions[e].line # functions[f].line

\* A line the upward scan is said to skip: blank, or a single-line comment.
IsBlankOrLineComment(s) ==
    strip(s) = <<>> \/ startswith(strip(s), mkLineComment)

\* The first line above line k that is neither blank nor a single-line
\* comment (0 when the start of the file comes first).
FirstLineAbove(k) ==
    IF \E j \in 1..(k - 1) : ~IsBlankOrLineComment(lines[j])
    THEN CHOOSE j \in 1..(k - 1) :
            /\ ~IsBlankOrLineComment(lines[j])
            /\ \A m \in (j + 1)..(k - 1) : IsBlankOrLineComment(lines[m])
    ELSE 0

\* C11: blank and single-line comment lines above a matched line are skipped
\* (the entry gets the description it would get were the matched line right
\* below the first other line); when that first other line is no
\* block-comment terminator, or the file starts first, the description is
\* the sentinel; no entry has an empty description.
C11_SkippedLinesAndSentinel ==
    lastOp = "extract" =>
        \A e \in DOMAIN functions :
            LET k == functions[e].line
                j == FirstLineAbove(k)
            IN  /\ functions[e].description # <<>>
                /\ j = 0 => functions[e].description = NoDescription
                /\ j # 0 /\ ~endswith(strip(lines[j]), mkClose) =>
                      functions[e].description = NoDescription
                /\ j # 0 /\ endswith(strip(lines[j]), mkClose) =>
                      functions[e].description =
                          DescriptionOrDefault(extract_jsdoc_comment(lines, j))

\* The terminator line the scan from line k finds (0 when it finds none):
\* the nearest line above k that ends with the terminator, with only blank
\* or single-line comment lines between it and k.
TerminatorAbove(k) ==
    IF \E t \in 1..(k - 1) :
          /\ endswith(strip(lines[t]), mkClose)
          /\ \A m \in (t + 1)..(k - 1) :
                /\ IsBlankOrLineComment(lines[m])
                /\ ~endswith(strip(lines[m]), mkClose)
    THEN CHOOSE t \in 1..(k - 1) :
            /\ endswith(strip(lines[t]), mkClose)
            /\ \A m \in (t + 1)..(k - 1) :
                  /\ IsBlankOrLineComment(lines[m])
                  /\ ~endswith(strip(lines[m]), mkClose)
    ELSE 0

\* The first opener line above line t (0 when there is none).
OpenerAbove(t) ==
    IF \E o \in 1..(t - 1) : startswith(strip(lines[o]), mkOpen)
    THEN CHOOSE o \in 1..(t - 1) :
            /\ startswith(strip(lines[o]), mkOpen)
            /\ \A m \in (o + 1)..(t - 1) : ~startswith(strip(lines[m]), mkOpen)
    ELSE 0

\* The lines the collection holds for terminator line t: from the first
\* opener above t, or from the first line of the file, down to t.
CollectedFor(t) ==
    SubSeq(lines, IF OpenerAbove(t) = 0 THEN 1 ELSE OpenerAbove(t), t)

\* C12: when the scan from a matched line finds a terminator line, every
\* line above it up to the first opener line, or up to the first line of
\* the file when there is no opener, is collected whatever it holds, and
\* the entry's description is built from exactly these lines.
C12_CollectionUpToOpenerOrFileStart ==
    lastOp = "extract" =>
        \A e \in DOMAIN functions :
            LET t == TerminatorAbove(functions[e].line)
            IN  t # 0 =>
                   functions[e].description =
                       DescriptionOrDefault(
                           Some(join(<<" ">>, CleanLines(CollectedFor(t)))))

\* An entry whose scan found a terminator with no opener above it, and whose
\* description comes from the lines collected down from the file's start.
C12_Witness ==
    /\ lastOp = "extract"
    /\ \E e \in DOMAIN functions :
          LET t == TerminatorAbove(functions[e].line)
          IN  /\ t > 1
              /\ OpenerAbove(t) = 0
              /\ functions[e].description # NoDescription
              /\ functions[e].description =
                    join(<<" ">>, CleanLines(SubSeq(lines, 1, t)))

---------------------------------------------------------------------------
(* Claims about the analysis (SpecAnalysis)                                *)

\* The catalog the document holds, for a document that json.load accepts.
Parses == document.exists /\ json_load(document.tokens).ok
ParsedCatalog == json_load(document.tokens).catalog

\* The places of the catalog's entries: item n, entry m.
EntryPlaces(cat) ==
    UNION {{<<n, m>> : m \in DOMAIN cat[n].value} : n \in DOMAIN cat}

NameCount(cat, name) ==
    Cardinality({pl \in EntryPlaces(cat) : cat[pl[1]].value[pl[2]].name = name})

\* C3: the keys of the duplicate report are exactly the names with two or
\* more entries in the catalog (two in one file count), each key once, and
\* the occurrence list of a name is as long as the number of its entries.
C3_DuplicatesAreExact ==
    lastOp = "analysis" /\ Parses =>
        LET cat == ParsedCatalog
            names == {cat[pl[1]].value[pl[2]].name : pl \in EntryPlaces(cat)}
        IN  /\ DictKeys(duplicates) = {name \in names : NameCount(cat, name) >= 2}
            /\ \A i, j \in DOMAIN duplicates :
                  duplicates[i].key = duplicates[j].key => i = j
            /\ \A i \in DOMAIN duplicates :
                  Len(duplicates[i].value) = NameCount(cat, duplicates[i].key)

\* A name with both its entries in one file is reported, and a name of the
\* catalog with one entry is not.
C3_Witness ==
    /\ lastOp = "analysis"
    /\ Parses
    /\ \E i \in DOMAIN duplicates :
          /\ Len(duplicates[i].value) = 2
          /\ duplicates[i].value[1].file = duplicates[i].value[2].file
    /\ \E pl \in EntryPlaces(ParsedCatalog) :
          ParsedCatalog[pl[1]].value[pl[2]].name \notin DictKeys(duplicates)

\* Whether some keyword of category c is, case-insensitively, a substring of
\* the name or of the description, for each kind of method.
KeywordInNameOrDescription ==
    [kind \in MethodKinds |->
        [c \in DOMAIN Patterns |->
            \E n \in DOMAIN Patterns[c].value :
                \/ Contains(lower(kind.name), lower(Patterns[c].value[n]))
                \/ Contains(lower(kind.description), lower(Patterns[c].value[n]))]]

GroupOf(category) ==
    IF DictGet(similar_groups, category) = None THEN <<>>
    ELSE DictGet(similar_groups, category)[1]

\* C4: for every entry and each of the 8 categories, the entry is in the
\* category's group exactly once if some keyword of the category is a
\* case-insensitive substring of its name or description, and not at all
\* otherwise; the groups hold nothing but entries of the catalog.
C4_ClassificationIsExact ==
    lastOp = "analysis" /\ Parses =>
        LET cat == ParsedCatalog
        IN  /\ Len(Patterns) = 8
            /\ \A c \in DOMAIN Patterns :
                  LET group == GroupOf(Patterns[c].key)
                  IN  /\ \A pl \in EntryPlaces(cat) :
                            LET method == cat[pl[1]].value[pl[2]]
                                info == MethodInfo(cat[pl[1]].key, method)
                                kind == [name |-> method.name,
                                         description |-> method.description]
                            IN  Cardinality({i \in DOMAIN group : group[i] = info})
                                  = IF KeywordInNameOrDescription[kind][c] THEN 1 ELSE 0
                      /\ \A i \in DOMAIN group :
                            \E pl \in EntryPlaces(cat) :
                                group[i] = MethodInfo(cat[pl[1]].key,
                                                      cat[pl[1]].value[pl[2]])

InGroup(category, name) ==
    \E i \in DOMAIN GroupOf(category) : GroupOf(category)[i].name = name

\* initAudioEffect, described by "a particle", is in initialization, audio
\* and effects at once, and render with no description is in no group.
C4_Witness ==
    /\ lastOp = "analysis"
    /\ Parses
    /\ InGroup("initialization", nmInitAudioEffect)
    /\ InGroup("audio", nmInitAudioEffect)
    /\ InGroup("effects", nmInitAudioEffect)
    /\ \E pl \in EntryPlaces(ParsedCatalog) :
          LET method == ParsedCatalog[pl[1]].value[pl[2]]
          IN  /\ method.name = nmRender
              /\ method.description = NoDescription
    /\ \A c \in DOMAIN Patterns :
          \A i \in DOMAIN GroupOf(Patterns[c].key) :
              GroupOf(Patterns[c].key)[i].description # NoDescription

\* C6: when the document is missing or cannot be parsed, main ends by
\* raising, and nothing was analysed or printed.
C6_LoadFailureIsFatal ==
    lastOp = "analysis" /\ ~Parses =>
        /\ status = "raised"
        /\ out = <<>>
        /\ duplicates = <<>>
        /\ similar_groups = <<>>

\* main ran on a document that exists and is cut short.
C6_Witness ==
    /\ lastOp = "analysis"
    /\ document.exists
    /\ Len(document.tokens) > 1
    /\ ~json_load(document.tokens).ok
    /\ status = "raised"

\* C7: for every catalog that loads, main reaches the summary and prints
\* total files, total entries, the number of duplicate names and the
\* duplication rate, duplicate names / entries x 100 to one decimal.
C7_SummaryIsRendered ==
    lastOp = "analysis" /\ Parses =>
        /\ status = "returned"
        /\ \E i \in DOMAIN out :
              /\ out[i].report = "Duplication rate"
              /\ LET total == Cardinality(EntryPlaces(ParsedCatalog))
                     scaled == 1000 * Len(duplicates)
                 IN  /\ out[i].value * total - scaled <= total
                     /\ scaled - out[i].value * total <= total

---------------------------------------------------------------------------
(* Claims about the generator (SpecCatalog)                                *)

\* What a scan of tree t gets from a file: its entries when its root
\* exists, it ends in .js and it can be read, nothing otherwise.
EntriesOfScan(t, path) ==
    IF /\ t.roots[path[1]]
       /\ t.files[path].state = "readable"
       /\ endswith(path[2], extJs)
    THEN ExtractFunctions(t.files[path].content, path)
    ELSE <<>>

\* C5: a generation puts every file that was found, could be read and has
\* entries in the catalog with those entries, whichever roots are missing
\* and whichever files cannot be read, and a failing root or file adds or
\* changes nothing under its own key.
C5_FailuresAreIsolated ==
    [][lastOp' = "generate" =>
        \A path \in PathSet :
            IF EntriesOfScan(tree, path) # <<>>
            THEN DictGet(catalog', path) = Some(EntriesOfScan(tree, path))
            ELSE DictGet(catalog', path) = DictGet(catalog, path)]_vars

\* The first file of the scan cannot be read; the file after it and the file
\* of the other root are in the catalog.
C5_Witness ==
    /\ lastOp = "generate"
    /\ tree.files[<<"src", fnA>>] = Unreadable
    /\ DictGet(catalog, <<"src", fnA>>) = None
    /\ DictGet(catalog, <<"src", fnB>>) # None
    /\ DictGet(catalog, <<"assets", fnC>>) # None

\* C8: the documents saved by generate_catalog followed by save_catalog,
\* run again and again over an unchanged tree, are the same.
C8_GenerationIsIdempotent ==
    \A i, j \in DOMAIN runs : runs[i] = runs[j]

\* Two generations in a row were saved over one tree, with entries.
C8_Witness ==
    /\ lastOp = "save"
    /\ Len(runs) >= 2
    /\ catalog # <<>>

\* C9: after a generation the catalog holds exactly the files of the latest
\* scan that have entries, with the entries of that scan.
C9_CatalogIsLatestScan ==
    lastOp = "generate" =>
        /\ DictKeys(catalog) \subseteq PathSet
        /\ \A path \in PathSet :
              DictGet(catalog, path) =
                 IF EntriesOfScan(tree, path) # <<>>
                 THEN Some(EntriesOfScan(tree, path))
                 ELSE None

===========================================================================
